---- MODULE Spec2Model ----
(***************************************************************************)
(* OpenKIWAS, the scripts under Scipts/.                                   *)
(*                                                                         *)
(* Eurostat_Search_Water_Statistics.py: the JSON-stat cube decoder         *)
(* jsonstat_to_dataframe (a cube -- dimension ids, one code -> position    *)
(* index per dimension, a size vector, a dense or sparse value store -- is *)
(* decoded into one row per flat position that holds a value), a caller    *)
(* that decodes several cubes, fetch_eurostat_json and                     *)
(* crawl_eurostat_datasets.                                                *)
(* csv_validator.py: validate_and_fix_csv.                                 *)
(* ZenodoSearch_fixed.py: search_zenodo under its retry decorator, called  *)
(* by search_and_save_results.                                             *)
(* driver.py: the thread pool of main and the output files its tasks      *)
(* write.                                                                  *)
(* llm_analysis.py: call_genai.                                            *)
(*                                                                         *)
(* Each part has its own variables, initial predicate and next-state       *)
(* relation; in the specification of one part the variables of the others  *)
(* keep their idle values.                                                 *)
(***************************************************************************)
EXTENDS Integers, Sequences, FiniteSets, TLC

VARIABLES
    js,                \* the cube handed to jsonstat_to_dataframe
    pc,                \* "call" | "returned" | "raised"
    raised,            \* the exception that left the function ("" when none)
    dim_categories,    \* dimension id -> ordered category codes
    n_obs,             \* product of the declared sizes
    strides,           \* one stride per declared size
    rows,              \* the local list rows: handed to pd.DataFrame on return,
                       \* what it held when an exception left the function
    row_idx,           \* history: the flat_idx at which each row was appended
    coords,            \* history: coord_codes of every flat_idx fully decoded
    heap,              \* the cubes a caller holds, by position
    calls,             \* history: one entry per finished call of the decoder
    responses,         \* what the server answers for each dataset code, in list order
    code_i,            \* position in dataset_codes of the code the for loop takes next
    crawl_pc,          \* "loop" | "done" | "raised"
    crawl_raised,      \* the exception that left crawl_eurostat_datasets ("" when none)
    all_frames,        \* the list all_frames: one frame per dataset kept
    fetches,           \* history: one entry per call of fetch_eurostat_json
    full_df,           \* the rows of the frame crawl_eurostat_datasets returns
    reader,            \* the rows csv.reader yields for the input file, each a list of cells
    expected_columns,  \* the argument expected_columns
    delimiter,         \* the argument delimiter, one character
    count,             \* the local count: rows taken from the reader so far
    out,               \* the local out: the text built so far, as its characters
    csv_pc,            \* "loop" | "written"
    outfile,           \* the text written to output_file
    catalogues,        \* what Zenodo holds for each search phrase, in list order
    phrase_i,          \* position in search_phrases of the phrase being processed
    attempt_number,    \* tenacity's count of the attempts of the current call
    page,              \* params["page"] of the current attempt
    all_datasets,      \* the local list all_datasets of the current attempt
    dropped,           \* history: a failed attempt of the current call had gathered records
    all_results,       \* the list all_results of search_and_save_results
    outcomes,          \* history: how the call for each phrase processed ended
    last_call,         \* history: the attempts and the result of the call that ended last
    zen_pc,            \* "search" | "done"
    project_ids,       \* the project ids read from the input file, in order
    submitted,         \* how many of them executor.submit has been called for
    task,              \* per submitted task: "queued" | "running" | "written" | "returned" | "raised"
    file_writers,      \* history: per output file, the tasks that have written it
    work_queue,        \* the executor's work queue: positions of the queued tasks
    threads,           \* the worker threads the executor has started
    progress,          \* the local progress: futures as_completed has yielded
    peak,              \* history: the most tasks that ever ran at once
    main_pc,           \* "pool" | "concatenate" | "done"
    gen_prompt,        \* the argument gen_prompt
    wait_time,         \* the local wait_time, in seconds
    slept,             \* history: the argument of each time.sleep call, in order
    attempts,          \* history: how each pass of the try block ended: "raised" | "no_text" | "text"
    response,          \* the local response: what generate_content returned
    gen_result,        \* the value call_genai returned, as its characters
    gen_pc             \* "try" | "text" | "except" | "returned"

decoderVars ==
    <<js, pc, raised, dim_categories, n_obs, strides, rows, row_idx, coords>>

callVars == <<heap, calls>>

crawlVars ==
    <<responses, code_i, crawl_pc, crawl_raised, all_frames, fetches,
    full_df>>

csvVars ==
    <<reader, expected_columns, delimiter, count, out, csv_pc, outfile>>

zenodoVars ==
    <<catalogues, phrase_i, attempt_number, page, all_datasets, dropped,
    all_results, outcomes, last_call, zen_pc>>

driverVars ==
    <<project_ids, submitted, task, file_writers, work_queue, threads,
    progress, peak, main_pc>>

genaiVars ==
    <<gen_prompt, wait_time, slept, attempts, response, gen_result, gen_pc>>

vars ==
    <<decoderVars, callVars, crawlVars, csvVars, zenodoVars, driverVars,
    genaiVars>>

\* The decoder's locals before its first statement.
NotStarted ==
    /\ pc = "call"
    /\ raised = ""
    /\ dim_categories = <<>>
    /\ n_obs = 0 - 1
    /\ strides = <<>>
    /\ rows = <<>>
    /\ row_idx = <<>>
    /\ coords = <<>>

\* No call of the decoder.
NoDecoder ==
    /\ js = <<>>
    /\ NotStarted

\* No caller around the decoder.
NoCaller ==
    /\ heap = <<>>
    /\ calls = <<>>

\* No crawl.
NoCrawl ==
    /\ responses = <<>>
    /\ code_i = 0
    /\ crawl_pc = "idle"
    /\ crawl_raised = ""
    /\ all_frames = <<>>
    /\ fetches = <<>>
    /\ full_df = <<>>

\* No call of validate_and_fix_csv.
NoCsv ==
    /\ reader = <<>>
    /\ expected_columns = 0
    /\ delimiter = ""
    /\ count = 0
    /\ out = <<>>
    /\ csv_pc = "idle"
    /\ outfile = <<>>

\* No call of search_zenodo has ended yet.
NoCall == [phrase |-> "", attempts |-> 0, error |-> "", dropped |-> FALSE, datasets |-> <<>>]

\* No Zenodo search.
NoZenodo ==
    /\ catalogues = <<>>
    /\ phrase_i = 0
    /\ attempt_number = 0
    /\ page = 0
    /\ all_datasets = <<>>
    /\ dropped = FALSE
    /\ all_results = <<>>
    /\ outcomes = <<>>
    /\ last_call = NoCall
    /\ zen_pc = "idle"

\* No run of driver.main.
NoDriver ==
    /\ project_ids = <<>>
    /\ submitted = 0
    /\ task = <<>>
    /\ file_writers = <<>>
    /\ work_queue = <<>>
    /\ threads = 0
    /\ progress = 0
    /\ peak = 0
    /\ main_pc = "idle"

\* The local response before generate_content has returned one.
NoResponse == [has_text |-> FALSE, text |-> <<>>]
\* No call of call_genai.
NoGenai ==
    /\ gen_prompt = ""
    /\ wait_time = 0
    /\ slept = <<>>
    /\ attempts = <<>>
    /\ response = NoResponse
    /\ gen_result = <<>>
    /\ gen_pc = "idle"

\* Everything outside the decoder: its variables, and the state in which
\* none of it has started.
outsideDecoder ==
    <<callVars, crawlVars, csvVars, zenodoVars, driverVars, genaiVars>>

OnlyDecoder == NoCaller /\ NoCrawl /\ NoCsv /\ NoZenodo /\ NoDriver /\ NoGenai

\* Everything outside a caller of the decoder: its variables, and the state in which
\* none of it has started.
outsideCaller == <<crawlVars, csvVars, zenodoVars, driverVars, genaiVars>>

OnlyCaller == NoCrawl /\ NoCsv /\ NoZenodo /\ NoDriver /\ NoGenai

\* Everything outside crawl_eurostat_datasets: its variables, and the state in which
\* none of it has started.
outsideCrawl ==
    <<decoderVars, callVars, csvVars, zenodoVars, driverVars, genaiVars>>

OnlyCrawl == NoDecoder /\ NoCaller /\ NoCsv /\ NoZenodo /\ NoDriver /\ NoGenai

\* Everything outside validate_and_fix_csv: its variables, and the state in which
\* none of it has started.
outsideCsv ==
    <<decoderVars, callVars, crawlVars, zenodoVars, driverVars, genaiVars>>

OnlyCsv == NoDecoder /\ NoCaller /\ NoCrawl /\ NoZenodo /\ NoDriver /\ NoGenai

\* Everything outside search_and_save_results: its variables, and the state in which
\* none of it has started.
outsideZenodo ==
    <<decoderVars, callVars, crawlVars, csvVars, driverVars, genaiVars>>

OnlyZenodo == NoDecoder /\ NoCaller /\ NoCrawl /\ NoCsv /\ NoDriver /\ NoGenai

\* Everything outside driver.main: its variables, and the state in which
\* none of it has started.
outsideDriver ==
    <<decoderVars, callVars, crawlVars, csvVars, zenodoVars, genaiVars>>

OnlyDriver == NoDecoder /\ NoCaller /\ NoCrawl /\ NoCsv /\ NoZenodo /\ NoGenai

\* Everything outside call_genai: its variables, and the state in which
\* none of it has started.
outsideGenai ==
    <<decoderVars, callVars, crawlVars, csvVars, zenodoVars, driverVars>>

OnlyGenai == NoDecoder /\ NoCaller /\ NoCrawl /\ NoCsv /\ NoZenodo /\ NoDriver

----------------------------------------------------------------------------
(* Bounds of the cube family. *)

MaxDims == 3
MaxSize == 3
MaxObs == 8
MaxNulls == 1
MaxKeys == 2

----------------------------------------------------------------------------
(* Python values. *)

None == [py |-> "None"]
Num(n) == [py |-> "int", n |-> n]

Digit == <<"0", "1", "2", "3", "4", "5", "6", "7", "8", "9">>

\* str(idx) of a non-negative int: its decimal digits, most significant first.
RECURSIVE Str(_)
Str(n) == IF n < 10 THEN Digit[n + 1] ELSE Str(n \div 10) \o Digit[(n % 10) + 1]

Range(s) == {s[j] : j \in 1..Len(s)}

Max(S) == CHOOSE m \in S : \A x \in S : x <= m

RECURSIVE Reverse(_)
Reverse(s) == IF s = <<>> THEN <<>> ELSE Reverse(Tail(s)) \o <<Head(s)>>

----------------------------------------------------------------------------
(* jsonstat_to_dataframe, lines 74-87: the ordered category list of one    *)
(* dimension.  index is the JSON object cat["index"] as its items in       *)
(* order, each [code, pos].                                                *)

\* {pos: code for code, pos in index.items()}: a later item overwrites.
pos_to_code(index) ==
    LET P == {index[j].pos : j \in 1..Len(index)}
        last(p) == Max({j \in 1..Len(index) : index[j].pos = p})
    IN  [p \in P |-> index[last(p)].code]

ordered_codes(index) ==
    LET p2c == pos_to_code(index)
    IN  IF DOMAIN p2c = {}
        THEN [raised |-> "", list |-> <<"_missing_">>]
        ELSE LET max_pos == Max(DOMAIN p2c)
             IN  IF \E i \in 0..max_pos : i \notin DOMAIN p2c
                 THEN [raised |-> "KeyError", list |-> <<>>]
                 ELSE [raised |-> "", list |-> [i \in 1..(max_pos + 1) |-> p2c[i - 1]]]

\* The loop over dim_ids: the first dimension that raises ends it.
RECURSIVE BuildCategories(_, _, _)
BuildCategories(cube, j, cats) ==
    IF j > Len(cube.id)
    THEN [raised |-> "", cats |-> cats]
    ELSE LET oc == ordered_codes(cube.dimension[cube.id[j]])
         IN  IF oc.raised # ""
             THEN [raised |-> oc.raised, cats |-> cats]
             ELSE BuildCategories(cube, j + 1, (cube.id[j] :> oc.list) @@ cats)

----------------------------------------------------------------------------
(* Lines 90-102: the flat-position count and the strides.                  *)

RECURSIVE NObsLoop(_, _)
NObsLoop(sizes, acc) ==
    IF sizes = <<>> THEN acc ELSE NObsLoop(Tail(sizes), acc * Head(sizes))

NObs(dim_sizes) == NObsLoop(dim_sizes, 1)

\* for size in reversed(dim_sizes): strides.insert(0, acc); acc *= size
RECURSIVE StridesLoop(_, _, _)
StridesLoop(rev, acc_strides, acc) ==
    IF rev = <<>>
    THEN acc_strides
    ELSE StridesLoop(Tail(rev), <<acc>> \o acc_strides, acc * Head(rev))

\* Faulty variant of Strides: strides.append(acc) in place of
\* strides.insert(0, acc).
RECURSIVE StridesAppendLoop(_, _, _)
StridesAppendLoop(rev, acc_strides, acc) ==
    IF rev = <<>>
    THEN acc_strides
    ELSE StridesAppendLoop(Tail(rev), Append(acc_strides, acc), acc * Head(rev))

StridesAppended(dim_sizes) == StridesAppendLoop(Reverse(dim_sizes), <<>>, 1)

Strides(dim_sizes) == StridesLoop(Reverse(dim_sizes), <<>>, 1)

----------------------------------------------------------------------------
(* Lines 105-111: get_value_at.  A value store is [kind |-> "list", items  *)
(* |-> a sequence], [kind |-> "dict", items |-> a function of string       *)
(* keys] or [kind |-> "other"].                                            *)

\* Faulty variant of get_value_at: value.get(idx, None), the int in place of
\* its decimal string.
get_value_at_intkey(value, idx) ==
    IF value.kind = "list"
    THEN IF idx < Len(value.items)
         THEN [raised |-> "", v |-> value.items[idx + 1]]
         ELSE [raised |-> "IndexError", v |-> None]
    ELSE [raised |-> "", v |-> None]

\* Faulty variant of get_value_at: value[str(idx)], which raises on an absent
\* key.
get_value_at_subscript(value, idx) ==
    IF value.kind = "list"
    THEN IF idx < Len(value.items)
         THEN [raised |-> "", v |-> value.items[idx + 1]]
         ELSE [raised |-> "IndexError", v |-> None]
    ELSE IF value.kind = "dict"
         THEN IF Str(idx) \in DOMAIN value.items
              THEN [raised |-> "", v |-> value.items[Str(idx)]]
              ELSE [raised |-> "KeyError", v |-> None]
         ELSE [raised |-> "", v |-> None]

get_value_at(value, idx) ==
    IF value.kind = "list"
    THEN IF idx < Len(value.items)
         THEN [raised |-> "", v |-> value.items[idx + 1]]
         ELSE [raised |-> "IndexError", v |-> None]
    ELSE IF value.kind = "dict"
         THEN [raised |-> "",
               v |-> IF Str(idx) \in DOMAIN value.items
                     THEN value.items[Str(idx)]
                     ELSE None]
         ELSE [raised |-> "", v |-> None]

\* Faulty variant of SkipValue: if not v: continue, which also skips a zero.
SkipFalsy(v) == v = None \/ v = Num(0)

\* Line 128: if v is None: continue
SkipValue(v) == v = None

\* Faulty variant of AppendRow: rows.insert(0, row) in place of
\* rows.append(row).
PrependRow(rs, coord_codes, v) == <<[codes |-> coord_codes, value |-> v]>> \o rs

\* Lines 131-133: row = coord_codes.copy(); row["value"] = v; rows.append(row)
AppendRow(rs, coord_codes, v) == Append(rs, [codes |-> coord_codes, value |-> v])

----------------------------------------------------------------------------
(* Lines 114-124: the coordinates of one flat position.                    *)

\* Python's // and % on ints: the quotient is rounded down and the remainder
\* has the sign of the divisor (the divisor is never 0 here: a stride of 0
\* needs a size of 0, and then n_obs is 0 and no position is decoded).
PyFloorDiv(a, b) == IF b > 0 THEN a \div b ELSE (0 - a) \div (0 - b)

PyMod(a, b) == a - b * PyFloorDiv(a, b)

\* Line 118: coord_index = remaining // stride
CoordIndex(remaining, stride) == PyFloorDiv(remaining, stride)

\* Line 119: remaining = remaining % stride
NextRemaining(remaining, stride) == PyMod(remaining, stride)

\* The indexes a Python list of length len accepts: -len..len-1, a negative
\* one counting from the end.
Subscriptable(len, i) == 0 - len <= i /\ i < len

\* Line 121: code_list[coord_index]
Subscript(list, i) == IF i >= 0 THEN list[i + 1] ELSE list[Len(list) + i + 1]

RECURSIVE CoordLoop(_, _, _, _, _, _)
CoordLoop(cube, cats, strd, dim_idx, remaining, coord_codes) ==
    IF dim_idx > Len(cube.size)
    THEN [raised |-> "", codes |-> coord_codes]
    ELSE LET stride == strd[dim_idx]
             coord_index == CoordIndex(remaining, stride)
             code_list == cats[cube.id[dim_idx]]
         IN  IF ~Subscriptable(Len(code_list), coord_index)
             THEN [raised |-> "IndexError", codes |-> coord_codes]
             ELSE CoordLoop(cube, cats, strd, dim_idx + 1,
                            NextRemaining(remaining, stride),
                            (cube.id[dim_idx] :> Subscript(code_list, coord_index))
                                @@ coord_codes)

\* Lines 113-133: the loop over the flat positions.
RECURSIVE MainLoop(_, _, _, _, _, _)
MainLoop(cube, cats, strd, n, flat_idx, acc) ==
    IF flat_idx >= n
    THEN acc
    ELSE LET cl == CoordLoop(cube, cats, strd, 1, flat_idx, <<>>)
         IN  IF cl.raised # ""
             THEN [acc EXCEPT !.raised = cl.raised]
             ELSE LET g == get_value_at(cube.value, flat_idx)
                      seen == [acc EXCEPT !.coords = Append(@, cl.codes)]
                  IN  IF g.raised # ""
                      THEN [seen EXCEPT !.raised = g.raised]
                      ELSE IF SkipValue(g.v)
                           THEN MainLoop(cube, cats, strd, n, flat_idx + 1, seen)
                           ELSE MainLoop(cube, cats, strd, n, flat_idx + 1,
                                         [seen EXCEPT
                                            !.rows = AppendRow(@, cl.codes, g.v),
                                            !.row_idx = Append(@, flat_idx)])

\* Lines 63-65: unwrap "dataset" when present.
Unwrap(j) == IF "dataset" \in DOMAIN j THEN j.dataset ELSE j

\* The whole function: its locals when it returns or when an exception
\* leaves it (raised names the exception; n_obs is -1 while not computed).
jsonstat_to_dataframe(j) ==
    LET cube == Unwrap(j)
        bc == BuildCategories(cube, 1, <<>>)
        start == [raised |-> "", dim_categories |-> bc.cats, n_obs |-> 0 - 1,
                  strides |-> <<>>, rows |-> <<>>, row_idx |-> <<>>, coords |-> <<>>]
    IN  IF bc.raised # ""
        THEN [start EXCEPT !.raised = bc.raised]
        ELSE LET n == NObs(cube.size)
                 strd == Strides(cube.size)
             IN  MainLoop(cube, bc.cats, strd, n, 0,
                          [start EXCEPT !.n_obs = n, !.strides = strd])

----------------------------------------------------------------------------
(* The family of cubes Init draws from.                                    *)

\* Dimension ids as in the comment of line 70.
DimNames == <<"geo", "time", "unit", "wat_src">>

CodePool ==
    [geo |-> <<"A", "B", "C", "D", "E", "F">>,
     time |-> <<"2020", "2021", "2022", "2023", "2024", "2025">>,
     unit |-> <<"MIO_M3", "M3_HAB", "PC", "HM3", "NR", "KM3">>,
     wat_src |-> <<"FRW", "FSW", "FGW", "NFW", "OTH", "TOT">>]

\* An index of k categories at positions 0..k-1, listed in pool order; rev
\* numbers them from the last code down, so position order is not code order.
RegularIndex(d, k, rev) ==
    [j \in 1..k |-> [code |-> CodePool[d][j], pos |-> IF rev THEN k - j ELSE j - 1]]

\* Size vectors of n dimensions, each size at least 1, whose product is at
\* most MaxObs.
SizeVectors(n) == {s \in [1..n -> 1..MaxSize] : NObs(s) <= MaxObs}

\* What the dimensions declare and supply, as [size, count]: every dimension
\* supplies as many categories as it declares (count = size = s); or all but
\* one do, and that one declares 0 or s[j] and supplies no category, one
\* fewer, as many or one more than s[j].
Variants(n, s) ==
    {[size |-> s, count |-> s]}
        \cup UNION {
            {[size |-> [s EXCEPT ![j] = sz], count |-> [s EXCEPT ![j] = k]] :
                sz \in {0, s[j]}, k \in {0, s[j] - 1, s[j], s[j] + 1} \cap Nat}
            : j \in 1..n}

Shape(n, size, counts, rev) ==
    [id |-> SubSeq(DimNames, 1, n), size |-> size,
     dimension |-> [d \in Range(SubSeq(DimNames, 1, n)) |->
                      LET j == CHOOSE i \in 1..n : DimNames[i] = d
                      IN  RegularIndex(d, counts[j], rev)]]

Shapes ==
    UNION {UNION {{Shape(n, w.size, w.count, rev) : w \in Variants(n, s), rev \in BOOLEAN} :
                    s \in SizeVectors(n)} : n \in 0..MaxDims}

\* The value the stores hold at position p.
Cell(p) == Num(p + 1)

NullSets(n) == {Z \in SUBSET (0..(n - 1)) : Cardinality(Z) <= MaxNulls}

DenseList(len, Z) == [i \in 1..len |-> IF (i - 1) \in Z THEN None ELSE Cell(i - 1)]

\* Dense stores over n flat positions: n entries of which at most MaxNulls
\* are null; one entry short; one entry long; n zeros.
DenseStores(n) ==
    {[kind |-> "list", items |-> DenseList(n, Z)] : Z \in NullSets(n)}
        \cup {[kind |-> "list", items |-> DenseList(len, {})] : len \in {n - 1, n + 1} \cap Nat}
        \cup {[kind |-> "list", items |-> [i \in 1..n |-> Num(0)]]}

SparseDict(K, Z) == [k \in {Str(p) : p \in K} |->
                        LET p == CHOOSE q \in K : Str(q) = k
                        IN  IF p \in Z THEN None ELSE Cell(p)]

\* Sparse stores over n flat positions: at most MaxKeys keys; every key but at
\* most MaxNulls; every key, at most MaxNulls of them mapped to null; a key
\* past the last position; a zero-padded key; a key mapped to zero.
SparseStores(n) ==
    {[kind |-> "dict", items |-> SparseDict(K, {})] :
        K \in {K \in SUBSET (0..(n - 1)) : Cardinality(K) <= MaxKeys}}
        \cup {[kind |-> "dict", items |-> SparseDict((0..(n - 1)) \ Z, {})] : Z \in NullSets(n)}
        \cup {[kind |-> "dict", items |-> SparseDict(0..(n - 1), Z)] : Z \in NullSets(n)}
        \cup {[kind |-> "dict", items |-> (Str(n) :> Cell(n))],
              [kind |-> "dict", items |-> ("00" :> Cell(0))],
              [kind |-> "dict", items |-> ("0" :> Num(0))]}

\* A value store that is neither a list nor a dict.
OtherStores == {[kind |-> "other"]}

Stores(n) == DenseStores(n) \cup SparseStores(n) \cup OtherStores

\* Evaluated once per flat-position count.
StoresOf == [n \in 0..MaxObs |-> Stores(n)]

Cube(sh, v) == [id |-> sh.id, size |-> sh.size, dimension |-> sh.dimension, value |-> v]

\* The 2 x 3 cube of the specification's round-trip property, dense and sparse.
SpecShape == Shape(2, <<2, 3>>, <<2, 3>>, FALSE)

SpecDense == Cube(SpecShape, [kind |-> "list", items |-> DenseList(6, {})])

SpecSparse == Cube(SpecShape, [kind |-> "dict", items |-> SparseDict({0, 3, 5}, {})])

\* A 3 x 4 cube whose last flat positions have two-digit keys.
TwoDigit ==
    Cube(Shape(2, <<3, 4>>, <<3, 4>>, FALSE),
         [kind |-> "dict", items |-> SparseDict({1, 10, 11}, {})])

Examples == {SpecDense, SpecSparse, TwoDigit}

----------------------------------------------------------------------------

Init ==
    /\ \/ \E sh \in Shapes : \E v \in StoresOf[NObs(sh.size)] : js = Cube(sh, v)
       \/ js \in Examples
       \/ \E e \in Examples : js = [dataset |-> e]
    /\ NotStarted
    /\ OnlyDecoder

Decode ==
    /\ pc = "call"
    /\ \E r \in {jsonstat_to_dataframe(js)} :
           /\ pc' = IF r.raised = "" THEN "returned" ELSE "raised"
           /\ raised' = r.raised
           /\ dim_categories' = r.dim_categories
           /\ n_obs' = r.n_obs
           /\ strides' = r.strides
           /\ rows' = r.rows
           /\ row_idx' = r.row_idx
           /\ coords' = r.coords
    /\ UNCHANGED <<js, outsideDecoder>>

Next == Decode

Spec == Init /\ [][Next]_vars

----------------------------------------------------------------------------
(* What the properties below are stated with: the cube as the              *)
(* specification describes it, computed from the input alone.              *)

TheCube == Unwrap(js)

RECURSIVE Prod(_)
Prod(s) == IF s = <<>> THEN 1 ELSE Head(s) * Prod(Tail(s))

\* Row-major stride of dimension i: the product of the sizes after it.
RowMajorStride(sizes, i) == Prod(SubSeq(sizes, i + 1, Len(sizes)))

IndexOf(cube, i) == cube.dimension[cube.id[i]]

\* The category at position q of a dimension: the code its index gives
\* position q, or the placeholder of a dimension without categories.
CategoryAt(index, q) ==
    IF index = <<>>
    THEN "_missing_"
    ELSE (CHOOSE it \in Range(index) : it.pos = q).code

\* Each declared size equals the length of the dimension's category list.
WellFormedDims(cube) ==
    \A i \in 1..Len(cube.id) :
        LET index == IndexOf(cube, i)
        IN  \/ index = <<>> /\ cube.size[i] = 1
            \/ /\ index # <<>>
               /\ Len(index) = cube.size[i]
               /\ {index[j].pos : j \in 1..Len(index)} = 0..(cube.size[i] - 1)

\* At least one dimension, all of them well formed.
ProperDims(cube) == cube.id # <<>> /\ WellFormedDims(cube)

\* A well-formed cube: proper dimensions and a dense store with one entry per
\* flat position, or a sparse store whose keys are decimal strings of flat
\* positions.
WellFormed(cube) ==
    /\ ProperDims(cube)
    /\ cube.value.kind \in {"list", "dict"}
    /\ cube.value.kind = "list" => Len(cube.value.items) = Prod(cube.size)
    /\ cube.value.kind = "dict" =>
           DOMAIN cube.value.items \subseteq {Str(p) : p \in 0..(Prod(cube.size) - 1)}

\* The value a store holds for flat position p (None: no value).
Stored(value, p) ==
    IF value.kind = "list"
    THEN IF p < Len(value.items) THEN value.items[p + 1] ELSE None
    ELSE IF value.kind = "dict" /\ Str(p) \in DOMAIN value.items
         THEN value.items[Str(p)]
         ELSE None

PresentPositions(cube) ==
    {p \in 0..(Prod(cube.size) - 1) : Stored(cube.value, p) # None}

\* The flat positions whose coordinates the loop decodes before it ends: all
\* of them, or, for a dense store that is too short, those up to the first
\* one without an entry.
DecodedCount(cube) ==
    IF cube.value.kind = "list" /\ Len(cube.value.items) < Prod(cube.size)
    THEN Len(cube.value.items) + 1
    ELSE Prod(cube.size)

----------------------------------------------------------------------------
(* C1.  For every well-formed cube and every flat position p, dimension i  *)
(* is given the category code at coordinate (p div stride_i) mod size_i,   *)
(* stride_i being the product of the sizes after i: the decoded            *)
(* coordinates are the row-major unravelling of p.                         *)

C1_RowMajorUnravel ==
    (pc # "call" /\ WellFormedDims(TheCube)) =>
        /\ Len(coords) = DecodedCount(TheCube)
        /\ \A p \in 0..(Len(coords) - 1) :
               /\ DOMAIN coords[p + 1] = Range(TheCube.id)
               /\ \A i \in 1..Len(TheCube.id) :
                      coords[p + 1][TheCube.id[i]] =
                          CategoryAt(IndexOf(TheCube, i),
                                     (p \div RowMajorStride(TheCube.size, i)) % TheCube.size[i])

\* A 2 x 2 x 2 cube, indexes numbered from the last code down, fully decoded.
C1_Witness ==
    /\ pc = "returned"
    /\ TheCube.size = <<2, 2, 2>>
    /\ WellFormedDims(TheCube)
    /\ IndexOf(TheCube, 2)[1].pos = 1
    /\ Len(coords) = 8
    /\ Len(rows) = 8

----------------------------------------------------------------------------
(* C2.  As claimed: for a well-formed cube the number of rows equals the   *)
(* number of non-null entries (dense) or the number of keys present        *)
(* (sparse), and never exceeds the product of the sizes.                   *)

C2_CountIsKeysPresent ==
    (pc # "call" /\ WellFormed(TheCube)) =>
        /\ pc = "returned"
        /\ Len(rows) <= Prod(TheCube.size)
        /\ Len(rows) = IF TheCube.value.kind = "list"
                       THEN Cardinality({i \in 1..Len(TheCube.value.items) :
                                            TheCube.value.items[i] # None})
                       ELSE Cardinality(DOMAIN TheCube.value.items)

(* C2, amended.  For a well-formed cube decode returns, and the number of  *)
(* rows equals the number of flat positions with a present value: dense,   *)
(* the non-null entries; sparse, the keys mapped to a non-null value.  It  *)
(* never exceeds the product of the sizes.                                 *)

C2_CountIsPresentPositions ==
    (pc # "call" /\ WellFormed(TheCube)) =>
        /\ pc = "returned"
        /\ Len(rows) <= Prod(TheCube.size)
        /\ Len(rows) = Cardinality(PresentPositions(TheCube))

\* A well-formed sparse cube decoded to fewer rows than it has keys.
C2_Witness ==
    /\ pc = "returned"
    /\ WellFormed(TheCube)
    /\ TheCube.value.kind = "dict"
    /\ Len(rows) >= 1
    /\ Len(rows) < Cardinality(DOMAIN TheCube.value.items)

----------------------------------------------------------------------------
(* C3.  Rows are emitted in strictly increasing flat-position order, each  *)
(* row carrying the codes and the value of its flat position, with no      *)
(* re-sorting; the dense 2 x 3 cube with values 1..6 yields A/2020,        *)
(* A/2021, A/2022, B/2020, B/2021, B/2022 in that order.                   *)

SpecRow(g, y, v) == [codes |-> [geo |-> g, time |-> y], value |-> Num(v)]

C3_FlatPositionOrder ==
    pc # "call" =>
        /\ Len(row_idx) = Len(rows)
        /\ \A a, b \in 1..Len(rows) : a < b => row_idx[a] < row_idx[b]
        /\ \A a \in 1..Len(rows) :
               /\ row_idx[a] < Len(coords)
               /\ rows[a].codes = coords[row_idx[a] + 1]
               /\ rows[a].value = Stored(TheCube.value, row_idx[a])
        /\ js = SpecDense =>
               /\ pc = "returned"
               /\ rows = <<SpecRow("A", "2020", 1), SpecRow("A", "2021", 2),
                           SpecRow("A", "2022", 3), SpecRow("B", "2020", 4),
                           SpecRow("B", "2021", 5), SpecRow("B", "2022", 6)>>

\* The 2 x 3 cube decoded, its six rows emitted.
C3_Witness == js = SpecDense /\ pc = "returned" /\ Len(rows) = 6

----------------------------------------------------------------------------
(* C4.  Sparse/dense equivalence: decoding a sparse store gives the same   *)
(* observation sequence (and the same failure, if any) as decoding the     *)
(* dense store that holds the same value at every keyed position and null  *)
(* at every position whose key is absent.                                  *)

DenseOf(cube) ==
    [cube EXCEPT !.value =
        [kind |-> "list",
         items |-> [i \in 1..Prod(cube.size) |-> Stored(cube.value, i - 1)]]]

C4_SparseDenseEquivalence ==
    (pc # "call" /\ TheCube.value.kind = "dict") =>
        /\ LET d == jsonstat_to_dataframe(DenseOf(TheCube))
           IN  rows = d.rows /\ raised = d.raised
        /\ js = SpecSparse =>
               /\ pc = "returned"
               /\ rows = <<SpecRow("A", "2020", 1), SpecRow("B", "2020", 4),
                           SpecRow("B", "2022", 6)>>

\* The sparse 2 x 3 cube with keys "0", "3", "5" decoded to its three rows.
C4_Witness == js = SpecSparse /\ pc = "returned" /\ Len(rows) = 3

----------------------------------------------------------------------------
(* C5.  In a sparse store a key mapped to null is treated exactly like an  *)
(* absent key: the decode of the cube equals the decode of the cube        *)
(* without its null-mapped keys, and the flat position of such a key       *)
(* yields no row.                                                          *)

DropNulls(cube) ==
    [cube EXCEPT !.value.items =
        [k \in {k \in DOMAIN cube.value.items : cube.value.items[k] # None} |->
            cube.value.items[k]]]

NullKeyed(cube) ==
    {p \in 0..(Prod(cube.size) - 1) :
        Str(p) \in DOMAIN cube.value.items /\ cube.value.items[Str(p)] = None}

C5_NullKeyIsAbsentKey ==
    (pc # "call" /\ TheCube.value.kind = "dict") =>
        /\ LET d == jsonstat_to_dataframe(DropNulls(TheCube))
           IN  rows = d.rows /\ raised = d.raised
        /\ \A p \in NullKeyed(TheCube) : p \notin Range(row_idx)
        /\ WellFormedDims(TheCube) => pc = "returned"

\* A sparse cube with a null-mapped key decoded, other positions emitted.
C5_Witness ==
    /\ pc = "returned"
    /\ TheCube.value.kind = "dict"
    /\ NullKeyed(TheCube) # {}
    /\ Len(rows) >= 2

----------------------------------------------------------------------------
(* C6.  A dimension whose category mapping is empty decodes as a           *)
(* single-category placeholder dimension: decode does not raise, and its   *)
(* rows are those of the cube in which that dimension is a genuine         *)
(* one-category dimension (size 1, the placeholder its only code), so      *)
(* every row carries the placeholder and the other codes are unchanged.    *)

HasEmptyDim(cube) == \E i \in 1..Len(cube.id) : IndexOf(cube, i) = <<>>

Genuine(cube) ==
    [cube EXCEPT
        !.size = [i \in 1..Len(cube.size) |->
                    IF IndexOf(cube, i) = <<>> THEN 1 ELSE cube.size[i]],
        !.dimension = [d \in DOMAIN cube.dimension |->
                         IF cube.dimension[d] = <<>>
                         THEN <<[code |-> "_missing_", pos |-> 0]>>
                         ELSE cube.dimension[d]]]

C6_EmptyDimIsPlaceholder ==
    (pc # "call" /\ HasEmptyDim(TheCube) /\ WellFormed(Genuine(TheCube))) =>
        /\ pc = "returned"
        /\ rows = jsonstat_to_dataframe(Genuine(TheCube)).rows

----------------------------------------------------------------------------
(* C7.  When a dimension supplies no categories the decoder uses size 1    *)
(* for that axis whatever size is declared: the flat-position count and    *)
(* the strides are those of the resolved sizes.                            *)

ResolvedSizes(cube) == Genuine(cube).size

C7_ResolvedSizesUsed ==
    (pc # "call" /\ HasEmptyDim(TheCube)) =>
        /\ n_obs = Prod(ResolvedSizes(TheCube))
        /\ strides = [i \in 1..Len(TheCube.size) |->
                         RowMajorStride(ResolvedSizes(TheCube), i)]

----------------------------------------------------------------------------
(* C8.  Decoding a cube whose dimension list is empty fails, whatever the  *)
(* value store holds; it never returns an observation sequence.  (Any      *)
(* exception leaving the function is counted as the InvalidCube failure.)  *)

C8_NoDimensionsFails ==
    (pc # "call" /\ TheCube.id = <<>>) => pc = "raised"

----------------------------------------------------------------------------
(* C9.  For a dense store whose length differs from the product of the     *)
(* declared sizes, shorter or longer, decode fails and returns no rows.    *)
(* (Stated for cubes whose dimensions are proper; any exception is counted *)
(* as the InvalidCube failure.)                                            *)

C9_DenseLengthMismatchFails ==
    (/\ pc # "call"
     /\ ProperDims(TheCube)
     /\ TheCube.value.kind = "list"
     /\ Len(TheCube.value.items) # Prod(TheCube.size)) => pc = "raised"

----------------------------------------------------------------------------
(* C10.  When the value store is neither a sequence nor a mapping, decode  *)
(* fails; it does not return an empty result.  (Stated for cubes whose     *)
(* dimensions are proper; any exception is counted as the InvalidCube      *)
(* failure.)                                                               *)

C10_UnknownStoreFails ==
    (pc # "call" /\ ProperDims(TheCube) /\ TheCube.value.kind = "other") =>
        pc = "raised"

----------------------------------------------------------------------------
(* C11.  When a dimension with a non-empty category mapping declares a      *)
(* size different from its number of categories, larger or smaller, decode *)
(* fails: in particular it never returns after using only a prefix of the  *)
(* categories.  (Stated for cubes whose value store fits the declared      *)
(* sizes; any exception is counted as the InvalidCube failure.)            *)

\* The value store has the shape the declared sizes ask for.
StoreFits(cube) ==
    /\ cube.value.kind \in {"list", "dict"}
    /\ cube.value.kind = "list" => Len(cube.value.items) = Prod(cube.size)
    /\ cube.value.kind = "dict" =>
           DOMAIN cube.value.items \subseteq {Str(p) : p \in 0..(Prod(cube.size) - 1)}

SizeMismatch(cube) ==
    \E i \in 1..Len(cube.id) :
        IndexOf(cube, i) # <<>> /\ Len(IndexOf(cube, i)) # cube.size[i]

C11_SizeMismatchFails ==
    (pc # "call" /\ SizeMismatch(TheCube) /\ StoreFits(TheCube)) => pc = "raised"

----------------------------------------------------------------------------
(* C12.  Every coordinate index the stride arithmetic produces lies within *)
(* 0..len(categories)-1 of its dimension whenever decode returns: an index *)
(* outside that range makes decode fail, so no category is read at an      *)
(* out-of-range index.  (Any exception is counted as the                   *)
(* MalformedCoordinate failure.)  Checked over cubes that declare negative *)
(* sizes, where the arithmetic yields negative indexes.                    *)

Abs(x) == IF x < 0 THEN 0 - x ELSE x

\* Size vectors with no 0 and at least one negative size; the product stays
\* within MaxObs either side of 0.
SignedSizeVectors(n) ==
    {s \in [1..n -> ((0 - MaxSize)..MaxSize) \ {0}] :
        /\ \E i \in 1..n : s[i] < 0
        /\ Abs(NObs(s)) <= MaxObs}

\* Each dimension supplies as many categories as the magnitude of its size.
SignedShapes ==
    UNION {{Shape(n, s, [i \in 1..n |-> Abs(s[i])], rev) :
                s \in SignedSizeVectors(n), rev \in BOOLEAN} : n \in 1..MaxDims}

InitSigned ==
    /\ \E sh \in SignedShapes :
           \E v \in StoresOf[IF NObs(sh.size) > 0 THEN NObs(sh.size) ELSE 0] :
               js = Cube(sh, v)
    /\ NotStarted
    /\ OnlyDecoder

SpecSigned == InitSigned /\ [][Next]_vars

\* The value of remaining when the loop of lines 116-124 reaches dimension i
\* at flat position p.
RECURSIVE RemainingAt(_, _, _)
RemainingAt(strd, p, i) ==
    IF i = 1 THEN p ELSE NextRemaining(RemainingAt(strd, p, i - 1), strd[i - 1])

C12_IndexesInBounds ==
    pc = "returned" =>
        \A p \in 0..(n_obs - 1) : \A i \in 1..Len(strides) :
            LET coord_index == CoordIndex(RemainingAt(strides, p, i), strides[i])
            IN  /\ 0 <= coord_index
                /\ coord_index < Len(dim_categories[TheCube.id[i]])

----------------------------------------------------------------------------
(* C13.  When the code -> position mapping of a dimension does not cover   *)
(* every position in 0..max_pos exactly once (a gap, or two codes sharing  *)
(* one position), decode fails instead of returning rows.  Checked over    *)
(* cubes whose first dimension has such a mapping.                         *)

Positions(index) == {index[j].pos : j \in 1..Len(index)}

HasGap(index) == Positions(index) # 0..Max(Positions(index))

HasSharedPosition(index) == Cardinality(Positions(index)) # Len(index)

\* The geo index with codes A, B, ... at the positions f gives them.
PositionedIndex(f) ==
    [j \in DOMAIN f |-> [code |-> CodePool.geo[j], pos |-> f[j]]]

\* Mappings of 2..MaxSize codes to positions 0..MaxSize with a gap or a
\* shared position.
IrregularIndexes ==
    UNION {{PositionedIndex(f) : f \in [1..k -> 0..MaxSize]} : k \in 2..MaxSize}
        \ {ix \in UNION {{PositionedIndex(f) : f \in [1..k -> 0..MaxSize]} :
                            k \in 2..MaxSize} :
              ~HasGap(ix) /\ ~HasSharedPosition(ix)}

\* geo carries the irregular index and declares its number of distinct
\* positions, its number of codes or max_pos + 1; time, when present, is
\* regular.
IrregularShapes ==
    UNION {UNION {
        {[id |-> <<"geo">>, size |-> <<sz>>, dimension |-> [geo |-> ix]]}
            \cup {[id |-> <<"geo", "time">>, size |-> <<sz, t>>,
                   dimension |-> [geo |-> ix, time |-> RegularIndex("time", t, FALSE)]] :
                      t \in {u \in 1..MaxSize : sz * u <= MaxObs}}
        : sz \in {Cardinality(Positions(ix)), Len(ix), Max(Positions(ix)) + 1}}
        : ix \in IrregularIndexes}

InitIrregular ==
    /\ \E sh \in IrregularShapes : \E v \in StoresOf[NObs(sh.size)] : js = Cube(sh, v)
    /\ NotStarted
    /\ OnlyDecoder

SpecIrregular == InitIrregular /\ [][Next]_vars

C13_IrregularIndexFails ==
    (/\ pc # "call"
     /\ \E i \in 1..Len(TheCube.id) :
            /\ IndexOf(TheCube, i) # <<>>
            /\ HasGap(IndexOf(TheCube, i)) \/ HasSharedPosition(IndexOf(TheCube, i))
     /\ StoreFits(TheCube)) => pc = "raised"

----------------------------------------------------------------------------
(* A caller that decodes the cubes it holds, one call after another, in    *)
(* any order and any number of times up to MaxCalls.                       *)

MaxCalls == 3

\* As if rows were a module-level list that is never reset.
RowsCarriedOver(left_behind) == left_behind

\* Line 95: rows = [] -- what the list holds when the loop starts, whatever
\* an earlier call left behind.
RowsAtEntry(left_behind) == <<>>

\* The cubes a caller may hold: the example cubes, one wrapped in "dataset",
\* one whose decode raises and one without any value.
ShortDense == Cube(SpecShape, [kind |-> "list", items |-> DenseList(4, {})])

CallCubes ==
    Examples \cup {[dataset |-> SpecSparse], ShortDense,
                   Cube(SpecShape, [kind |-> "dict", items |-> <<>>])}

InitCalls ==
    /\ heap \in [1..2 -> CallCubes]
    /\ calls = <<>>
    /\ js = <<>>
    /\ NotStarted
    /\ OnlyCaller

\* One whole call jsonstat_to_dataframe(heap[i]).
CallDecode ==
    /\ Len(calls) < MaxCalls
    /\ \E i \in DOMAIN heap :
           \E r \in {jsonstat_to_dataframe(heap[i])} :
               /\ js' = heap[i]
               /\ pc' = IF r.raised = "" THEN "returned" ELSE "raised"
               /\ raised' = r.raised
               /\ dim_categories' = r.dim_categories
               /\ n_obs' = r.n_obs
               /\ strides' = r.strides
               /\ rows' = RowsAtEntry(rows) \o r.rows
               /\ row_idx' = r.row_idx
               /\ coords' = r.coords
               /\ calls' = Append(calls, [arg |-> i, input |-> heap[i],
                                          raised |-> r.raised,
                                          rows |-> RowsAtEntry(rows) \o r.rows])
    /\ UNCHANGED <<heap, outsideCaller>>

NextCalls == CallDecode

SpecCalls == InitCalls /\ [][NextCalls]_vars

----------------------------------------------------------------------------
(* C14.  Decode is a pure function of its input: two calls on the same     *)
(* cube, with any calls on other cubes in between, end the same way with   *)
(* the same observation sequence, and the cube a call was given is         *)
(* unchanged afterwards.                                                   *)

----------------------------------------------------------------------------
(* fetch_eurostat_json and crawl_eurostat_datasets.  The server's answer   *)
(* to each request is drawn in Init; the crawl takes one dataset code per  *)
(* step of its for loop and then combines the frames it kept.              *)

MaxDatasets == 3

\* Lines 221-232.
DATASETS ==
    <<"env_wat_ltaa", "env_wat_res", "env_wat_abs", "env_wat_use", "env_wat_pop",
      "env_wat_bal", "env_wat_con", "env_wat_spd", "env_wat_genv", "env_wat_genp">>

\* A response body that is not JSON.
NotJson == [py |-> "bytes"]

\* The cubes a 200 response may carry: two that decode to rows, one whose
\* decode raises, one without any value.
CrawlCubes ==
    {SpecDense, [dataset |-> SpecSparse], ShortDense,
     Cube(SpecShape, [kind |-> "dict", items |-> <<>>])}

\* What requests.get may do: raise before any response arrives, or return a
\* response with a status code and a body.
ServerAnswers ==
    {[kind |-> "exception", name |-> e, status |-> 0, body |-> None] :
        e \in {"ConnectionError", "Timeout"}}
        \cup {[kind |-> "http", name |-> "", status |-> st, body |-> NotJson] :
                st \in {200, 404, 500}}
        \cup {[kind |-> "http", name |-> "", status |-> 200, body |-> c] :
                c \in CrawlCubes}

\* Lines 32-53, as [raised, value]: the exception that leaves the function
\* ("" when none) and the value returned.
fetch_eurostat_json(answer) ==
    IF answer.kind = "exception"
    THEN [raised |-> answer.name, value |-> None]
    ELSE IF answer.status = 404
         THEN [raised |-> "", value |-> None]
         ELSE IF answer.status >= 400
              THEN [raised |-> "", value |-> None]
              ELSE IF answer.body = NotJson
                   THEN [raised |-> "JSONDecodeError", value |-> None]
                   ELSE [raised |-> "", value |-> answer.body]

RECURSIVE NumDigits(_)
NumDigits(k) == IF k < 10 THEN 1 ELSE 1 + NumDigits(k \div 10)

\* str(k).zfill(width) of a non-negative int.
RECURSIVE ZFill(_, _)
ZFill(k, width) ==
    IF NumDigits(k) >= width THEN Str(k) ELSE "0" \o ZFill(k, width - 1)

\* Lines 163-173: the columns dataset_code and OpenKIWAS_ID.
TagRows(rs, code) ==
    [k \in 1..Len(rs) |->
        [codes |-> rs[k].codes, value |-> rs[k].value, dataset_code |-> code,
         OpenKIWAS_ID |-> "eurostat-" \o code \o "-" \o ZFill(k, 4)]]

RECURSIVE Concat(_)
\* pd.concat(frames, ignore_index=True)
Concat(frames) == IF frames = <<>> THEN <<>> ELSE Head(frames) \o Concat(Tail(frames))

\* Lines 187-197: the dimension columns of desired_order.
DesiredDims == {"freq", "wat_proc", "unit", "geo", "time", "wat_src"}

\* Lines 200-202: only the columns of desired_order are kept.
SelectColumns(rs) ==
    [k \in 1..Len(rs) |->
        [rs[k] EXCEPT !.codes = [d \in (DOMAIN rs[k].codes) \cap DesiredDims |->
                                    rs[k].codes[d]]]]

InitCrawl ==
    /\ responses \in UNION {[1..n -> ServerAnswers] : n \in 1..MaxDatasets}
    /\ code_i = 1
    /\ crawl_pc = "loop"
    /\ crawl_raised = ""
    /\ all_frames = <<>>
    /\ fetches = <<>>
    /\ full_df = <<>>
    /\ OnlyCrawl

\* Lines 148-176: one pass of the for loop.
CrawlStep ==
    /\ crawl_pc = "loop"
    /\ code_i <= Len(responses)
    /\ \E f \in {fetch_eurostat_json(responses[code_i])} :
           /\ fetches' = Append(fetches, [code |-> DATASETS[code_i],
                                          raised |-> f.raised, value |-> f.value])
           /\ IF f.raised # ""
              THEN /\ crawl_pc' = "raised"
                   /\ crawl_raised' = f.raised
                   /\ UNCHANGED <<code_i, all_frames>>
              ELSE IF f.value = None
                   THEN /\ code_i' = code_i + 1
                        /\ UNCHANGED <<crawl_pc, crawl_raised, all_frames>>
                   ELSE \E df \in {jsonstat_to_dataframe(f.value)} :
                            IF df.raised # ""
                            THEN /\ crawl_pc' = "raised"
                                 /\ crawl_raised' = df.raised
                                 /\ UNCHANGED <<code_i, all_frames>>
                            ELSE /\ code_i' = code_i + 1
                                 /\ all_frames' =
                                        IF df.rows = <<>>
                                        THEN all_frames
                                        ELSE Append(all_frames,
                                                    TagRows(df.rows, DATASETS[code_i]))
                                 /\ UNCHANGED <<crawl_pc, crawl_raised>>
    /\ UNCHANGED <<responses, full_df, outsideCrawl>>

\* Lines 178-213: the combined frame.
CrawlFinish ==
    /\ crawl_pc = "loop"
    /\ code_i > Len(responses)
    /\ full_df' = IF all_frames = <<>> THEN <<>> ELSE SelectColumns(Concat(all_frames))
    /\ crawl_pc' = "done"
    /\ UNCHANGED <<responses, code_i, crawl_raised, all_frames, fetches, outsideCrawl>>

NextCrawl == CrawlStep \/ CrawlFinish

SpecCrawl == InitCrawl /\ [][NextCrawl]_vars

----------------------------------------------------------------------------
(* C15.  In crawl_eurostat_datasets a dataset whose fetch or decode fails  *)
(* is skipped entirely: it contributes no rows, and every other dataset    *)
(* code of the list is still fetched, decoded and included in the combined *)
(* output.  (Stated for crawls in which every request is answered with a   *)
(* response that carries JSON or an error status, so that no fetch         *)
(* raises.)                                                                *)

Answered(answer) ==
    answer.kind = "http" /\ (answer.status = 200 => answer.body # NotJson)

\* The rows dataset i is to contribute: none when its fetch or its decode
\* fails, its tagged rows otherwise.
Contribution(i) ==
    LET f == fetch_eurostat_json(responses[i])
    IN  IF f.raised # "" \/ f.value = None
        THEN <<>>
        ELSE LET df == jsonstat_to_dataframe(f.value)
             IN  IF df.raised # "" THEN <<>> ELSE TagRows(df.rows, DATASETS[i])

C15_FailedDatasetSkipped ==
    (crawl_pc # "loop" /\ \A i \in DOMAIN responses : Answered(responses[i])) =>
        /\ crawl_pc = "done"
        /\ Len(fetches) = Len(responses)
        /\ full_df = SelectColumns(Concat([i \in DOMAIN responses |-> Contribution(i)]))

----------------------------------------------------------------------------
(* C16.  fetch_eurostat_json returns the parsed JSON on success and None   *)
(* on a 404 or any other HTTP error status, and whatever the outcome of    *)
(* the request no exception leaves it for crawl_eurostat_datasets.         *)

C16_FetchNeverRaises ==
    \A k \in DOMAIN fetches :
        LET answer == responses[k]
        IN  /\ fetches[k].raised = ""
            /\ fetches[k].value =
                  IF answer.kind = "http" /\ answer.status = 200
                  THEN answer.body
                  ELSE None

----------------------------------------------------------------------------
(* csv_validator.py, validate_and_fix_csv.  Text is a sequence of          *)
(* one-character strings; a cell is the text csv.reader yields for it (a   *)
(* quoted cell of the input may hold the delimiter).  One step per row of  *)
(* the reader, then the closing separator and the write.                   *)

MaxLines == 2
MaxCells == 2

\* llm_analysis.py line 59: validate_and_fix_csv(output_file, output_file, 12, ...)
LlmColumns == 12

\* Lines 21 and 33: the literal "|||||||||||\n".
SeparatorRow == <<"|", "|", "|", "|", "|", "|", "|", "|", "|", "|", "|", "\n">>

\* The cells the reader may yield: empty, plain, or holding a delimiter
\* character because the input quoted it.
Cells == {<<>>, <<"a">>, <<"b", "|", "c">>, <<"d", ",", "e">>}

ReaderRows == UNION {[1..n -> Cells] : n \in 0..MaxCells}

\* Line 19: [cell for cell in line if cell]
RECURSIVE NonEmptyCells(_)
NonEmptyCells(line) ==
    IF line = <<>>
    THEN <<>>
    ELSE IF Head(line) = <<>>
         THEN NonEmptyCells(Tail(line))
         ELSE <<Head(line)>> \o NonEmptyCells(Tail(line))

\* Lines 25-30: pad on the right with empty cells, or cut on the right.
FitColumns(line, expected) ==
    IF Len(line) < expected
    THEN line \o [j \in 1..(expected - Len(line)) |-> <<>>]
    ELSE IF Len(line) > expected
         THEN SubSeq(line, 1, expected)
         ELSE line

\* Line 31: delimiter.join(line)
RECURSIVE Join(_, _)
Join(line, delim) ==
    IF line = <<>>
    THEN <<>>
    ELSE IF Len(line) = 1
         THEN Head(line)
         ELSE Head(line) \o <<delim>> \o Join(Tail(line), delim)

InitCsv ==
    /\ reader \in UNION {[1..n -> ReaderRows] : n \in 0..MaxLines}
    /\ expected_columns \in (0..(MaxCells + 1)) \cup {LlmColumns}
    /\ delimiter \in {"|", ","}
    /\ count = 0
    /\ out = <<>>
    /\ csv_pc = "loop"
    /\ outfile = <<>>
    /\ OnlyCsv

\* Lines 17-32: one row of the reader.
CsvLine ==
    /\ csv_pc = "loop"
    /\ count < Len(reader)
    /\ out' = (IF count = 1 THEN out \o SeparatorRow ELSE out)
                \o Join(FitColumns(NonEmptyCells(reader[count + 1]), expected_columns),
                        delimiter)
                \o <<"\n">>
    /\ count' = count + 1
    /\ UNCHANGED <<reader, expected_columns, delimiter, csv_pc, outfile, outsideCsv>>

\* Lines 33-35: the closing separator, then the write.
CsvWrite ==
    /\ csv_pc = "loop"
    /\ count = Len(reader)
    /\ out' = out \o SeparatorRow
    /\ outfile' = out \o SeparatorRow
    /\ csv_pc' = "written"
    /\ UNCHANGED <<reader, expected_columns, delimiter, count, outsideCsv>>

NextCsv == CsvLine \/ CsvWrite

SpecCsv == InitCsv /\ [][NextCsv]_vars

----------------------------------------------------------------------------
(* C17.  After validate_and_fix_csv every row of the output file, the      *)
(* separator rows after the first row and at the end included, has exactly *)
(* expected_columns cells when split on the delimiter, for every input,    *)
(* every expected_columns and every delimiter.                             *)

\* The rows of a text: its pieces between line ends (the piece after the
\* last line end is not a row when it is empty).
RECURSIVE TextRows(_, _)
TextRows(text, row) ==
    IF text = <<>>
    THEN IF row = <<>> THEN <<>> ELSE <<row>>
    ELSE IF Head(text) = "\n"
         THEN <<row>> \o TextRows(Tail(text), <<>>)
         ELSE TextRows(Tail(text), Append(row, Head(text)))

\* len(row.split(delim))
CellCount(row, delim) == 1 + Cardinality({j \in 1..Len(row) : row[j] = delim})

C17_EveryRowHasExpectedCells ==
    csv_pc = "written" =>
        \A k \in 1..Len(TextRows(outfile, <<>>)) :
            CellCount(TextRows(outfile, <<>>)[k], delimiter) = expected_columns

----------------------------------------------------------------------------
(* ZenodoSearch_fixed.py: search_zenodo under its tenacity retry           *)
(* decorator, called by search_and_save_results for one phrase after       *)
(* another.  A list of records is kept as its runs: the run                *)
(* [attempt, page, kept] stands for the first kept records that passed the *)
(* date filter on that page in that attempt.  One step per request.        *)

MaxPhrases == 2

\* Line 84: stop_after_attempt(5)
MaxAttempts == 5

\* Line 97
PAGE_SIZE == 100

\* Line 98
RESULTS_LIMIT == 1000

\* Line 43
search_phrases == <<"river", "reservoir", "aquifers", "underground water", "lake">>

Min(S) == CHOOSE m \in S : \A x \in S : m <= x

\* What Zenodo holds for a phrase: the number of hits, and which of them
\* carry a valid publication date within the years filter (all, all but the
\* first hit of every page, none).
Catalogues ==
    {[total |-> 0, fresh |-> "all"]}
        \cup {[total |-> t, fresh |-> fr] :
                t \in {1, PAGE_SIZE + 1, RESULTS_LIMIT + PAGE_SIZE + 1},
                fr \in {"all", "butfirst", "none"}}

\* len(results) on page p: the server serves PAGE_SIZE hits per page.
PageHits(cat, p) == Max({0, Min({PAGE_SIZE, cat.total - (p - 1) * PAGE_SIZE})})

\* Lines 150-156: len(filtered_results).
FilteredHits(cat, p) ==
    IF cat.fresh = "all"
    THEN PageHits(cat, p)
    ELSE IF cat.fresh = "butfirst" THEN Max({0, PageHits(cat, p) - 1}) ELSE 0

\* Line 162: "next" in links.
HasNext(cat, p) == p * PAGE_SIZE < cat.total

RECURSIVE Size(_)
\* len() of a list kept as runs.
Size(runs) == IF runs = <<>> THEN 0 ELSE Head(runs).kept + Size(Tail(runs))

\* As if extend took every filtered result.
ExtendAll(datasets, att, p, filtered) ==
    IF filtered = 0
    THEN datasets
    ELSE Append(datasets, [attempt |-> att, page |-> p, kept |-> filtered])

\* Line 158: all_datasets.extend(filtered_results[: RESULTS_LIMIT - len(all_datasets)])
Extend(datasets, att, p, filtered) ==
    IF Min({filtered, RESULTS_LIMIT - Size(datasets)}) = 0
    THEN datasets
    ELSE Append(datasets, [attempt |-> att, page |-> p,
                           kept |-> Min({filtered, RESULTS_LIMIT - Size(datasets)})])

\* As if all_datasets outlived the attempt.
ListCarriedOver(left_behind) == left_behind

\* Line 118: all_datasets = [] -- every attempt starts with an empty list.
ListAtEntry(left_behind) == <<>>

\* Line 86: the exceptions tenacity retries on.
RetriedOn(exc) == exc \in {"HTTPError", "Timeout", "ConnectionError"}

\* As if the decorator had no stop condition.
NeverStop(n) == FALSE

\* Line 84: stop_after_attempt(5) -- no further attempt after the 5th.
StopAfterAttempt(n) == n >= MaxAttempts

\* Lines 170-239: one row per dataset, here one run of rows per run of
\* datasets.
extract_metadata(datasets, search_phrase) ==
    [k \in 1..Len(datasets) |->
        [phrase |-> search_phrase, page |-> datasets[k].page, kept |-> datasets[k].kept]]

InitZenodo ==
    /\ catalogues \in UNION {[1..n -> Catalogues] : n \in 1..MaxPhrases}
    /\ phrase_i = 1
    /\ attempt_number = 1
    /\ page = 1
    /\ all_datasets = <<>>
    /\ dropped = FALSE
    /\ all_results = <<>>
    /\ outcomes = <<>>
    /\ last_call = NoCall
    /\ zen_pc = "search"
    /\ OnlyZenodo

\* search_zenodo returns ds: lines 249-251, then the next phrase.
Returns(ds) ==
    /\ all_results' = all_results \o extract_metadata(ds, search_phrases[phrase_i])
    /\ outcomes' = Append(outcomes, [phrase |-> search_phrases[phrase_i], error |-> ""])
    /\ last_call' = [phrase |-> search_phrases[phrase_i], attempts |-> attempt_number,
                     error |-> "", dropped |-> dropped, datasets |-> ds]
    /\ phrase_i' = phrase_i + 1
    /\ attempt_number' = 1
    /\ page' = 1
    /\ all_datasets' = ListAtEntry(ds)
    /\ dropped' = FALSE

\* An exception leaves the attempt: tenacity starts the next attempt, or
\* lets the failure out to lines 252-253, which go on to the next phrase.
Raises(exc) ==
    IF RetriedOn(exc) /\ ~StopAfterAttempt(attempt_number)
    THEN /\ attempt_number' = attempt_number + 1
         /\ page' = 1
         /\ all_datasets' = ListAtEntry(all_datasets)
         /\ dropped' = (dropped \/ all_datasets # <<>>)
         /\ UNCHANGED <<phrase_i, all_results, outcomes, last_call>>
    ELSE /\ outcomes' = Append(outcomes,
                               [phrase |-> search_phrases[phrase_i],
                                error |-> IF RetriedOn(exc) THEN "RetryError" ELSE exc])
         /\ last_call' = [phrase |-> search_phrases[phrase_i],
                          attempts |-> attempt_number,
                          error |-> IF RetriedOn(exc) THEN "RetryError" ELSE exc,
                          dropped |-> (dropped \/ all_datasets # <<>>),
                          datasets |-> <<>>]
         /\ phrase_i' = phrase_i + 1
         /\ attempt_number' = 1
         /\ page' = 1
         /\ all_datasets' = ListAtEntry(all_datasets)
         /\ dropped' = FALSE
         /\ UNCHANGED all_results

\* Lines 122-165: one pass of the while loop, the request answered.
PageAnswered ==
    /\ zen_pc = "search"
    /\ phrase_i <= Len(catalogues)
    /\ LET cat == catalogues[phrase_i]
           extended == Extend(all_datasets, attempt_number, page, FilteredHits(cat, page))
       IN  IF PageHits(cat, page) = 0
           THEN Returns(all_datasets)
           ELSE IF ~HasNext(cat, page) \/ Size(extended) >= RESULTS_LIMIT
                THEN Returns(extended)
                ELSE /\ all_datasets' = extended
                     /\ page' = page + 1
                     /\ UNCHANGED <<phrase_i, attempt_number, dropped, all_results,
                                    outcomes, last_call>>
    /\ UNCHANGED <<catalogues, zen_pc, outsideZenodo>>

\* Lines 123-142: the request fails (no connection, a timeout, a status of
\* 429 or another error status), or its body is JSON of another shape.
PageFails ==
    /\ zen_pc = "search"
    /\ phrase_i <= Len(catalogues)
    /\ \E exc \in {"HTTPError", "Timeout", "ConnectionError", "AttributeError"} :
           Raises(exc)
    /\ UNCHANGED <<catalogues, zen_pc, outsideZenodo>>

\* Lines 255-315: the phrases are exhausted.
SaveResults ==
    /\ zen_pc = "search"
    /\ phrase_i > Len(catalogues)
    /\ zen_pc' = "done"
    /\ UNCHANGED <<catalogues, phrase_i, attempt_number, page, all_datasets, dropped,
                   all_results, outcomes, last_call, outsideZenodo>>

NextZenodo == PageAnswered \/ PageFails \/ SaveResults

SpecZenodo == InitZenodo /\ [][NextZenodo]_vars

----------------------------------------------------------------------------
(* C18.  For each search phrase search_zenodo is attempted at most 5       *)
(* times; a call fails with tenacity's RetryError only when its 5th        *)
(* attempt ended in a request exception, the failure is handled in         *)
(* search_and_save_results, which adds no rows for that phrase, and every  *)
(* remaining phrase is still processed.                                    *)

C18_FiveAttemptsThenSkip ==
    /\ attempt_number <= MaxAttempts
    /\ last_call.attempts <= MaxAttempts
    /\ last_call.error = "RetryError" => last_call.attempts = MaxAttempts
    /\ \A k \in DOMAIN outcomes :
           /\ outcomes[k].phrase = search_phrases[k]
           /\ outcomes[k].error # "" =>
                  \A r \in DOMAIN all_results :
                      all_results[r].phrase # outcomes[k].phrase
    /\ zen_pc = "done" => Len(outcomes) = Len(catalogues)

C18_Witness ==
    /\ zen_pc = "done"
    /\ Len(outcomes) = 2
    /\ outcomes[1].error = "RetryError"
    /\ outcomes[2].error = ""
    /\ all_results # <<>>

----------------------------------------------------------------------------
(* C19.  The list search_zenodo returns holds at most 1000 records, all of *)
(* them collected by the final, successful attempt, page after page from   *)
(* page 1 on: what an earlier attempt gathered before it failed is neither *)
(* returned again nor carried over.  The same holds of the list while an   *)
(* attempt is under way.                                                   *)

FromAttempt(datasets, att) ==
    /\ Size(datasets) <= RESULTS_LIMIT
    /\ \A k \in DOMAIN datasets : datasets[k].attempt = att
    /\ \A k \in 1..(Len(datasets) - 1) : datasets[k].page < datasets[k + 1].page

C19_OnlyFinalAttempt ==
    /\ FromAttempt(all_datasets, attempt_number)
    /\ \A k \in DOMAIN all_datasets : all_datasets[k].page < page
    /\ last_call.error = "" => FromAttempt(last_call.datasets, last_call.attempts)

C19_Witness ==
    /\ last_call.error = ""
    /\ last_call.dropped
    /\ last_call.attempts > 1
    /\ Size(last_call.datasets) = RESULTS_LIMIT
    /\ last_call.datasets[Len(last_call.datasets)].kept < PAGE_SIZE - 1

----------------------------------------------------------------------------
(* driver.py, main, lines 74-82: one llm_analysis task per project id is   *)
(* submitted to a ThreadPoolExecutor, the futures are drained with         *)
(* as_completed, the with block is left and concatenate_output is called.  *)
(* The executor starts a worker thread on submit while it has fewer than   *)
(* max_workers and none is idle; a worker takes the tasks of the queue one *)
(* at a time, first in first out.                                          *)

MaxTasks == 6

\* Line 77: ThreadPoolExecutor(max_workers=5)
max_workers == 5

\* Project ids as the input file may list them.
ProjectIdPool == <<101, 102, 103, 104, 105, 106, 107, 108, 109, 110>>

\* Line 78: f"output/{project_id}.csv"
OutputFile(project_id) == "output/" \o Str(project_id) \o ".csv"

\* The tasks inside llm_analysis: before line 57 ("running") or between the
\* write of line 57 and the end of the validation of line 59 ("written").
Running == {t \in DOMAIN task : task[t] \in {"running", "written"}}

Finished == {t \in DOMAIN task : task[t] \in {"returned", "raised"}}

\* As if the executor started a thread for every submit.
AlwaysSpawn(started, idle) == TRUE

\* submit starts another worker thread when none is idle and fewer than
\* max_workers have been started.
MaySpawn(started, idle) == idle = 0 /\ started < max_workers

\* Lines 63-77: the output directory is emptied and nothing is submitted yet.
DriverStarts ==
    /\ submitted = 0
    /\ task = <<>>
    /\ file_writers = [f \in {OutputFile(project_ids[k]) : k \in DOMAIN project_ids} |-> {}]
    /\ work_queue = <<>>
    /\ threads = 0
    /\ progress = 0
    /\ peak = 0
    /\ main_pc = "pool"

InitDriver ==
    /\ \E n \in 0..MaxTasks : project_ids = SubSeq(ProjectIdPool, 1, n)
    /\ DriverStarts
    /\ OnlyDriver

\* Line 78: executor.submit(llm_analysis, project_id, ...) for the next id.
Submit ==
    /\ main_pc = "pool"
    /\ submitted < Len(project_ids)
    /\ submitted' = submitted + 1
    /\ task' = Append(task, "queued")
    /\ work_queue' = Append(work_queue, submitted + 1)
    /\ threads' = IF MaySpawn(threads, threads - Cardinality(Running))
                  THEN threads + 1
                  ELSE threads
    /\ UNCHANGED <<project_ids, file_writers, progress, peak, main_pc, outsideDriver>>

\* An idle worker thread takes the task at the head of the queue and calls
\* llm_analysis.
TaskStarts ==
    /\ work_queue # <<>>
    /\ Cardinality(Running) < threads
    /\ task' = [task EXCEPT ![Head(work_queue)] = "running"]
    /\ work_queue' = Tail(work_queue)
    /\ peak' = Max({peak, Cardinality(Running) + 1})
    /\ UNCHANGED <<project_ids, submitted, file_writers, threads, progress, main_pc,
                   outsideDriver>>

\* llm_analysis.py line 57: open(output_file, "w").write(result)
TaskWrites ==
    /\ \E t \in DOMAIN task :
           /\ task[t] = "running"
           /\ task' = [task EXCEPT ![t] = "written"]
           /\ file_writers' = [file_writers EXCEPT ![OutputFile(project_ids[t])] = @ \cup {t}]
    /\ UNCHANGED <<project_ids, submitted, work_queue, threads, progress, peak, main_pc,
                   outsideDriver>>

\* llm_analysis.py lines 59-60: the file is read back, rewritten by
\* validate_and_fix_csv, and llm_analysis returns: the future holds its result.
TaskReturns ==
    /\ \E t \in DOMAIN task :
           /\ task[t] = "written"
           /\ task' = [task EXCEPT ![t] = "returned"]
    /\ UNCHANGED <<project_ids, submitted, file_writers, work_queue, threads, progress,
                   peak, main_pc, outsideDriver>>

\* llm_analysis raises: the future holds the exception.
TaskRaises ==
    /\ \E t \in Running : task' = [task EXCEPT ![t] = "raised"]
    /\ UNCHANGED <<project_ids, submitted, file_writers, work_queue, threads, progress,
                   peak, main_pc, outsideDriver>>

\* Lines 79-80: as_completed yields a finished future not yet yielded.
AsCompletedYields ==
    /\ main_pc = "pool"
    /\ submitted = Len(project_ids)
    /\ progress < Cardinality(Finished)
    /\ progress' = progress + 1
    /\ UNCHANGED <<project_ids, submitted, task, file_writers, work_queue, threads, peak,
                   main_pc, outsideDriver>>

\* Lines 79-82: every future has been yielded; the with block is left, which
\* waits for the worker threads, and concatenate_output is called.
LeaveWith ==
    /\ main_pc = "pool"
    /\ submitted = Len(project_ids)
    /\ progress = Len(project_ids)
    /\ work_queue = <<>>
    /\ Running = {}
    /\ main_pc' = "concatenate"
    /\ UNCHANGED <<project_ids, submitted, task, file_writers, work_queue, threads,
                   progress, peak, outsideDriver>>

\* Line 82: concatenate_output() runs to its end.
ConcatenateOutput ==
    /\ main_pc = "concatenate"
    /\ main_pc' = "done"
    /\ UNCHANGED <<project_ids, submitted, task, file_writers, work_queue, threads,
                   progress, peak, outsideDriver>>

NextDriver ==
    \/ Submit
    \/ TaskStarts
    \/ TaskWrites
    \/ TaskReturns
    \/ TaskRaises
    \/ AsCompletedYields
    \/ LeaveWith
    \/ ConcatenateOutput

SpecDriver == InitDriver /\ [][NextDriver]_vars

----------------------------------------------------------------------------
(* C20.  In driver.main at no time are more than 5 llm_analysis tasks      *)
(* running, and concatenate_output starts only after every submitted task  *)
(* has finished, whether it returned or raised.                            *)

C20_PoolBoundAndJoin ==
    /\ Cardinality(Running) <= max_workers
    /\ main_pc \in {"concatenate", "done"} =>
           /\ submitted = Len(project_ids)
           /\ Finished = 1..Len(project_ids)

C20_Witness ==
    /\ main_pc = "concatenate"
    /\ Len(project_ids) > max_workers
    /\ peak = max_workers
    /\ \E t \in DOMAIN task : task[t] = "raised"
    /\ \E t \in DOMAIN task : task[t] = "returned"

----------------------------------------------------------------------------
(* C21.  In driver.main, for any input list of project ids, each           *)
(* output/<project_id>.csv is written and validated by one task only: no   *)
(* two tasks write or rewrite the same output file.  Checked over lists    *)
(* in which a project id may occur more than once.                         *)

MaxListed == 3

\* The input file lists up to MaxListed ids, each one of the first two of
\* the pool: lines 74-75 keep every numeric Project_ID, repeated or not.
InitListed ==
    /\ project_ids \in UNION {[1..n -> {ProjectIdPool[1], ProjectIdPool[2]}] :
                                n \in 1..MaxListed}
    /\ DriverStarts
    /\ OnlyDriver

SpecListed == InitListed /\ [][NextDriver]_vars

C21_OneWriterPerFile ==
    \A f \in DOMAIN file_writers : Cardinality(file_writers[f]) <= 1

----------------------------------------------------------------------------
(* call_genai (llm_analysis.py lines 29-39): generate_content is tried     *)
(* until one pass of the try block reaches the return of line 35; every    *)
(* pass that raises is followed by a sleep of wait_time seconds and the    *)
(* doubling of wait_time.  A text is a sequence of characters.             *)

\* Consecutive failures followed.  time.sleep takes wait_time as long as it
\* is below 2^34 seconds, far beyond this bound.
MaxFailures == 5

Prompts == {"prompt_1", "prompt_2"}

\* What generate_content may return: a response whose text property gives a
\* text, or a response without one, whose text property raises ValueError.
Responses ==
    {[has_text |-> TRUE, text |-> t] :
        t \in {<<"a">>, <<" ", "a", "\n">>, <<"a", " ", "b">>, <<"\t", " ">>}}
    \cup {[has_text |-> FALSE, text |-> <<>>]}

Whitespace == {" ", "\t", "\n"}

RECURSIVE LStrip(_)
LStrip(text) ==
    IF text # <<>> /\ Head(text) \in Whitespace THEN LStrip(Tail(text)) ELSE text

RECURSIVE RStrip(_)
RStrip(text) ==
    IF text # <<>> /\ text[Len(text)] \in Whitespace
    THEN RStrip(SubSeq(text, 1, Len(text) - 1))
    ELSE text

\* Line 35: str.strip()
Strip(text) == RStrip(LStrip(text))

NextWaitLinear(seconds) == seconds + 1

\* Line 39: wait_time *= 2
NextWait(seconds) == seconds * 2

\* Line 30: wait_time = 1, nothing tried yet.
InitGenai ==
    /\ gen_prompt \in Prompts
    /\ wait_time = 1
    /\ slept = <<>>
    /\ attempts = <<>>
    /\ response = NoResponse
    /\ gen_result = <<>>
    /\ gen_pc = "try"
    /\ OnlyGenai

\* Lines 33-34: GenerativeModel(...) or generate_content(gen_prompt) raises
\* an Exception; control goes to the handler of line 36.
GenerateContentRaises ==
    /\ gen_pc = "try"
    /\ Len(slept) < MaxFailures
    /\ attempts' = Append(attempts, "raised")
    /\ gen_pc' = "except"
    /\ UNCHANGED <<gen_prompt, wait_time, slept, response, gen_result, outsideGenai>>

\* Line 34: generate_content(gen_prompt) returns a response.
GenerateContentReturns ==
    /\ gen_pc = "try"
    /\ \E r \in Responses :
           /\ ~r.has_text => Len(slept) < MaxFailures
           /\ response' = r
    /\ gen_pc' = "text"
    /\ UNCHANGED <<gen_prompt, wait_time, slept, attempts, gen_result, outsideGenai>>

\* Line 35: response.text raises ValueError when the response has no text
\* (handled like any other Exception, line 36); otherwise its stripped value
\* is returned.
ReturnText ==
    /\ gen_pc = "text"
    /\ IF response.has_text
       THEN /\ gen_result' = Strip(response.text)
            /\ attempts' = Append(attempts, "text")
            /\ gen_pc' = "returned"
       ELSE /\ attempts' = Append(attempts, "no_text")
            /\ gen_pc' = "except"
            /\ UNCHANGED gen_result
    /\ UNCHANGED <<gen_prompt, wait_time, slept, response, outsideGenai>>

\* Lines 37-39: time.sleep(wait_time), wait_time *= 2, and the loop goes round.
SleepAndRetry ==
    /\ gen_pc = "except"
    /\ slept' = Append(slept, wait_time)
    /\ wait_time' = NextWait(wait_time)
    /\ gen_pc' = "try"
    /\ UNCHANGED <<gen_prompt, attempts, response, gen_result, outsideGenai>>

NextGenai ==
    \/ GenerateContentRaises
    \/ GenerateContentReturns
    \/ ReturnText
    \/ SleepAndRetry

SpecGenai == InitGenai /\ [][NextGenai]_vars

RECURSIVE Pow2(_)
Pow2(n) == IF n = 0 THEN 1 ELSE 2 * Pow2(n - 1)

\* The passes of the try block that failed.
Failed == {k \in DOMAIN attempts : attempts[k] # "text"}

(* C22.  call_genai returns only the text of a successful pass: the k-th   *)
(* consecutive failure is followed by a sleep of 2^(k-1) seconds and a     *)
(* new pass (every failure is slept on, none ends the call); the call has  *)
(* returned exactly when a pass has succeeded, that pass is the last one   *)
(* made, and the value returned is the stripped text of its response;      *)
(* the call is never left in another way.                                  *)
C22_ReturnsOnlySuccessfulText ==
    /\ gen_pc \in {"try", "text", "except", "returned"}
    /\ \A k \in DOMAIN slept : slept[k] = Pow2(k - 1)
    /\ Len(slept) = Cardinality(Failed) - (IF gen_pc = "except" THEN 1 ELSE 0)
    /\ \A k \in DOMAIN attempts : attempts[k] = "text" => k = Len(attempts)
    /\ gen_pc = "returned" <=> (attempts # <<>> /\ attempts[Len(attempts)] = "text")
    /\ gen_pc = "returned" => response.has_text /\ gen_result = Strip(response.text)
    /\ gen_pc # "returned" => gen_result = <<>>

\* call_genai returned a text whose ends were stripped, after three failures
\* and sleeps of 1, 2 and 4 seconds.
C22_Witness ==
    /\ gen_pc = "returned"
    /\ slept = <<1, 2, 4>>
    /\ gen_result = <<"a">>
    /\ response.text = <<" ", "a", "\n">>

====
